---- MODULE Spec2Model ----
(***************************************************************************)
(* A model of doatools/estimation/core.py: the default peak finder, the    *)
(* noise-subspace helper and SpectrumBasedEstimatorBase (steering-matrix   *)
(* cache, spectrum -> peaks -> top-k selection, grid refinement).          *)
(*                                                                         *)
(* Conventions.  Python's None is the empty tuple <<>> and a present value *)
(* v is <<v>>.  Python indices are 0-based and are kept 0-based in every   *)
(* value of the model; a TLA+ sequence s holds Python's s[i] at s[i + 1].  *)
(* An ndarray is [shape, data] with data in row-major (flattened) order.   *)
(* A local of the code that is read more than once is a parameter of a     *)
(* helper operator (the name of the code plus the local), so that it is    *)
(* computed once.                                                          *)
(***************************************************************************)
EXTENDS Integers, Sequences, FiniteSets

VARIABLES
    \* find_peaks_simple called as a function
    x, peaks_out,
    \* get_noise_subspace called as a function
    R, k_noise, noise_out,
    \* one SpectrumBasedEstimatorBase instance: self._search_grid,
    \* self._enable_caching, self._A
    search_grid, enable_caching, A_,
    \* the spectrum function the concrete estimator hands to _estimate
    f_sp,
    \* bookkeeping of the calls made on the instance: the number of _estimate
    \* calls, the number of design.steering_matrix calls made for the search
    \* grid's source placement, and the arguments, the returned tuple and the
    \* trace of the latest _estimate call
    calls, n_sm_grid, args, ret, log,
    \* one _refine_estimates call run step by step: its arguments, the
    \* position of the call, the loop variables r and i, and the state of
    \* the loop (locations, subgrids and what has been done)
    rargs, rpc, rpos, loop,
    \* threads running _get_steering_matrix on the instance: the line each
    \* is at, its local A, the calls it has completed, and the number of
    \* assignments made to self._A
    tpc, tA, tcalls, n_writes

vars == <<x, peaks_out, R, k_noise, noise_out,
          search_grid, enable_caching, A_, f_sp, calls, n_sm_grid, args, ret, log,
          rargs, rpc, rpos, loop, tpc, tA, tcalls, n_writes>>

(***************************************************************************)
(* Bounds of the model.                                                    *)
(***************************************************************************)
MaxLen == 5        \* longest 1-D array handed to find_peaks_simple
MaxVal == 2        \* spectrum and array values range over 0..MaxVal
MaxN == 3          \* largest matrix dimension handed to get_noise_subspace
MaxK == 3          \* largest number of sources asked for
MaxCalls == 2      \* _estimate calls made on one instance
MaxDensity == 2    \* largest refinement density passed explicitly
MaxIters == 2      \* largest number of refinement iterations passed explicitly
NThreads == 2      \* threads that call into one instance

\* def _refine_estimates(self, f_sp, est0, peak_indices, density=10, n_iters=3)
DefaultDensity == 10
DefaultIters == 3

None == <<>>
Some(v) == <<v>>

\* The sequence s as an explicit tuple of its elements.
array(s) == s \o <<>>

Min2(a, b) == IF a <= b THEN a ELSE b
Max2(a, b) == IF a >= b THEN a ELSE b

RECURSIVE SetMax(_)
SetMax(S) ==
    LET e == CHOOSE e \in S : TRUE
    IN  IF S = {e} THEN e ELSE Max2(e, SetMax(S \ {e}))

RECURSIVE Prod(_)
Prod(s) == IF s = <<>> THEN 1 ELSE Head(s) * Prod(Tail(s))

(***************************************************************************)
(* numpy index conversions for an array of shape `shape` (C order).        *)
(***************************************************************************)
\* np.ravel_multi_index of one coordinate tuple
RECURSIVE RavelOne(_, _)
RavelOne(coord, shape) ==
    IF coord = <<>> THEN 0
    ELSE Head(coord) * Prod(Tail(shape)) + RavelOne(Tail(coord), Tail(shape))

\* np.unravel_index of one flattened index
RECURSIVE UnravelOne(_, _)
UnravelOne(flat, shape) ==
    IF shape = <<>> THEN <<>>
    ELSE LET stride == Prod(Tail(shape))
         IN  <<flat \div stride>> \o UnravelOne(flat % stride, Tail(shape))

\* np.unravel_index(flat_indices, shape): a tuple of coordinate arrays, one
\* per axis, each as long as flat_indices.
unravel_index(flat_indices, shape) ==
    array([a \in 1..Len(shape) |->
        array([j \in 1..Len(flat_indices) |-> UnravelOne(flat_indices[j], shape)[a]])])

\* np.ravel_multi_index(coord_arrays, shape): the flattened index of every
\* column of the tuple of coordinate arrays.
ravel_multi_index(coord_arrays, shape) ==
    array([j \in 1..Len(coord_arrays[1]) |->
        RavelOne([a \in 1..Len(shape) |-> coord_arrays[a][j]], shape)])

(***************************************************************************)
(* find_peaks_simple, 1-D branch: scipy.signal.find_peaks(x) with no       *)
(* condition, i.e. scipy's _local_maxima_1d scan.  d is the data, i the    *)
(* 0-based scan position, i_max = len - 1 the last index.                  *)
(***************************************************************************)
\* The first index >= i_ahead that is i_max or holds a value other than v.
RECURSIVE PlateauEnd(_, _, _, _)
PlateauEnd(d, v, i_ahead, i_max) ==
    IF i_ahead < i_max /\ d[i_ahead + 1] = v
    THEN PlateauEnd(d, v, i_ahead + 1, i_max)
    ELSE i_ahead

\* The midpoint recorded for a plateau whose edges are left and right.
PlateauMidpointUp(left, right) == (left + right + 1) \div 2
PlateauMidpoint(left, right) == (left + right) \div 2

RECURSIVE LocalMaxima1D(_, _, _)
LocalMaxima1D(d, i, i_max) ==
    IF i >= i_max THEN <<>>
    ELSE IF d[i] < d[i + 1]             \* x[i - 1] < x[i]
         THEN LET i_ahead == PlateauEnd(d, d[i + 1], i + 1, i_max)
              IN  IF d[i_ahead + 1] < d[i + 1]
                  THEN <<PlateauMidpoint(i, i_ahead - 1)>>
                       \o LocalMaxima1D(d, i_ahead + 1, i_max)
                  ELSE LocalMaxima1D(d, i + 1, i_max)
         ELSE LocalMaxima1D(d, i + 1, i_max)

(***************************************************************************)
(* find_peaks_simple, N-D branch: scipy.ndimage.maximum_filter(x, 3) (the  *)
(* maximum over the 3^d neighbourhood, out-of-range neighbours reflected   *)
(* onto the edge sample) and np.where(x == y).                             *)
(***************************************************************************)
Reflect(c, n) == IF c < 0 THEN 0 ELSE IF c >= n THEN n - 1 ELSE c

Neighbourhood(coord, shape) ==
    {cc \in [1..Len(shape) -> 0..(SetMax({shape[a] : a \in 1..Len(shape)}) - 1)] :
        \A a \in 1..Len(shape) :
            cc[a] \in {Reflect(coord[a] - 1, shape[a]), coord[a],
                       Reflect(coord[a] + 1, shape[a])}}

maximum_filter(arr, flat) ==
    SetMax({arr.data[RavelOne(cc, arr.shape) + 1] :
                cc \in Neighbourhood(UnravelOne(flat, arr.shape), arr.shape)})

\* np.where(x == y): the flattened indices lo..hi-1 at which x equals its
\* maximum filter y, in ascending order.
RECURSIVE WhereEqual(_, _, _)
WhereEqual(arr, lo, hi) ==
    IF lo >= hi THEN <<>>
    ELSE (IF arr.data[lo + 1] = maximum_filter(arr, lo) THEN <<lo>> ELSE <<>>)
         \o WhereEqual(arr, lo + 1, hi)

\* find_peaks_simple(x): a tuple with one coordinate array per axis of x.
find_peaks_simple(arr) ==
    IF Len(arr.shape) = 1
    THEN <<LocalMaxima1D(arr.data, 1, arr.shape[1] - 1)>>
    ELSE unravel_index(WhereEqual(arr, 0, Prod(arr.shape)), arr.shape)

(***************************************************************************)
(* get_noise_subspace.  R is [rows, cols, eig]: its shape and, for a       *)
(* square R, its eigenvalues.  np.linalg.eigh raises LinAlgError when R is *)
(* not square; otherwise E holds one eigenvector per column in ascending   *)
(* order of eigenvalue.  A column is modelled by its eigenvalue.           *)
(***************************************************************************)
\* Insert v into the ascending sequence s.
RECURSIVE InsertAsc(_, _)
InsertAsc(v, s) ==
    IF s = <<>> THEN <<v>>
    ELSE IF v <= Head(s) THEN <<v>> \o s
         ELSE <<Head(s)>> \o InsertAsc(v, Tail(s))

\* ndarray.sort(): ascending.
RECURSIVE SortAsc(_)
SortAsc(s) == IF s = <<>> THEN <<>> ELSE InsertAsc(Head(s), SortAsc(Tail(s)))

\* Python's resolution of a slice bound b against a length n: a negative
\* bound counts from the end, and the result is clipped to 0..n.
SliceBound(b, n) == IF b < 0 THEN Max2(b + n, 0) ELSE Min2(b, n)

\* s[:stop]
SliceTo(s, stop) == SubSeq(s, 1, SliceBound(stop, Len(s)))
\* s[start:]
SliceFrom(s, start) == SubSeq(s, SliceBound(start, Len(s)) + 1, Len(s))

\* Outcome of np.linalg.eigh(R): [raised, E].
eigh(M) ==
    IF M.rows # M.cols
    THEN [raised |-> TRUE, E |-> None]
    ELSE [raised |-> FALSE, E |-> Some([rows |-> M.rows, cols |-> SortAsc(M.eig)])]

\* get_noise_subspace(R, k): [raised, value]; value is E[:, :-k].
NoiseColumns(r, k) ==
    IF r.raised
    THEN [raised |-> TRUE, value |-> None]
    ELSE [raised |-> FALSE,
          value |-> Some([rows |-> r.E[1].rows,
                          cols |-> SliceTo(r.E[1].cols, -k)])]

get_noise_subspace(M, k) == NoiseColumns(eigh(M), k)

(***************************************************************************)
(* The collaborators of the estimator: the search grid, its source         *)
(* placement and the array design.  A grid is [axes]: one ascending        *)
(* sequence of integer positions per axis.  A source placement is          *)
(* [locations]: one point (a tuple with one position per axis) per source. *)
(***************************************************************************)
GridShape(g) == array([a \in 1..Len(g.axes) |-> Len(g.axes[a])])

\* The points of the grid with the given axes, in flattened (C) order: the
\* last axis varies fastest.  h is the first axis and rest the points of
\* the grid of the other axes.
GridPointsOver(h, rest) ==
    array([j \in 1..(Len(h) * Len(rest)) |->
              <<h[((j - 1) \div Len(rest)) + 1]>> \o rest[((j - 1) % Len(rest)) + 1]])

RECURSIVE GridPoints(_)
GridPoints(axes) ==
    IF axes = <<>> THEN << <<>> >>
    ELSE GridPointsOver(Head(axes), GridPoints(Tail(axes)))

\* grid.source_placement: the grid points in flattened order
source_placement(g) == [locations |-> GridPoints(g.axes)]

\* placement[flat_indices]: a new placement holding copies of the entries
PlacementIndex(placement, flat_indices) ==
    [locations |-> array([j \in 1..Len(flat_indices) |->
                        placement.locations[flat_indices[j] + 1]])]

\* np.linspace(a, b, n) on positions whose spacing n - 1 divides
linspace(a, b, n) ==
    array([j \in 1..n |-> IF n = 1 THEN a ELSE a + ((j - 1) * (b - a)) \div (n - 1)])

\* One axis of the sub-grid centred at index c: from the previous to the
\* next point of the axis (clipped at the ends), density points per cell.
RefinedAxis(axis, c, density) ==
    LET lo == Max2(0, c - 1)
        hi == Min2(Len(axis) - 1, c + 1)
    IN  linspace(axis[lo + 1], axis[hi + 1], (hi - lo) * density + 1)

\* grid.create_refined_grid_at(coord, density=density)
create_refined_grid_at(g, coord, density) ==
    [axes |-> array([a \in 1..Len(g.axes) |->
                        RefinedAxis(g.axes[a], coord[a], density)])]

\* grid.create_refined_grids_at(*coord_arrays, density=density): one
\* sub-grid per column of the coordinate arrays
create_refined_grids_at(g, coord_arrays, density) ==
    array([j \in 1..Len(coord_arrays[1]) |->
        create_refined_grid_at(
            g, [a \in 1..Len(coord_arrays) |-> coord_arrays[a][j]], density)])

\* design.steering_matrix(placement, wavelength, perturbations='known'):
\* one column per location, in the placement's order.  A column is
\* modelled by the location it responds to.
steering_matrix(placement) == placement.locations

(***************************************************************************)
(* The spectrum functions of the model.  f is [shape, step, tab]: on the   *)
(* points of the search grid (spacing step) the spectrum takes the values  *)
(* of the table tab (scaled), elsewhere a value that varies with the       *)
(* point.  f_sp(A) has one value per column of A.                          *)
(***************************************************************************)
RECURSIVE SeqSum(_)
SeqSum(s) == IF s = <<>> THEN 0 ELSE Head(s) + SeqSum(Tail(s))

FSpAt(f, pt) ==
    IF \A a \in 1..Len(pt) : pt[a] % f.step = 0
    THEN 3 * f.tab[RavelOne([a \in 1..Len(pt) |-> pt[a] \div f.step], f.shape) + 1]
    ELSE (3 * SeqSum([a \in 1..Len(pt) |-> a * pt[a]]) + SeqSum(f.tab)) % 7

FSp(f, A) == array([j \in 1..Len(A) |-> FSpAt(f, A[j])])

\* sp.reshape(shape)
reshape(data, shape) == [shape |-> shape, data |-> data]

(***************************************************************************)
(* SpectrumBasedEstimatorBase._get_steering_matrix.  cache is self._A.     *)
(* The outcome is [A, cache, computed]: the matrix returned, self._A       *)
(* afterwards, and the number of design.steering_matrix calls made.        *)
(***************************************************************************)
\* the value self._A holds after a computed matrix A
StoreAlways(caching, cache, A) == Some(A)
StoreIfCaching(caching, cache, A) == IF caching THEN Some(A) ELSE cache

GetSteeringMatrixCompute(caching, cache, A) ==
    [A |-> A, cache |-> StoreIfCaching(caching, cache, A), computed |-> 1]

_get_steering_matrix(grid, caching, cache) ==
    IF cache # None
    THEN [A |-> cache[1], cache |-> cache, computed |-> 0]
    ELSE GetSteeringMatrixCompute(
             caching, cache, steering_matrix(source_placement(grid)))

(***************************************************************************)
(* SpectrumBasedEstimatorBase._refine_estimates.  The state of the loop is *)
(* rs = [locations, subgrids, updates, created, densities, sm_calls]:      *)
(* est0.locations, the list subgrids, and what the loop has done so far:   *)
(* the location updates of each estimate, the create_refined_grid_at calls *)
(* made for each estimate, the density of every sub-grid created, and the  *)
(* number of design.steering_matrix calls.                                 *)
(***************************************************************************)
\* sp.argmax(): the first index of the maximum.  ArgmaxIn is the first
\* index of the maximum of sp[lo..hi] (0-based, inclusive); of two
\* candidates l < h the later one wins only with a strictly greater value.
FirstMax(sp, l, h) == IF sp[h + 1] > sp[l + 1] THEN h ELSE l

RECURSIVE ArgmaxIn(_, _, _)
ArgmaxIn(sp, lo, hi) ==
    IF lo = hi THEN lo
    ELSE FirstMax(sp, ArgmaxIn(sp, lo, (lo + hi) \div 2),
                      ArgmaxIn(sp, ((lo + hi) \div 2) + 1, hi))

argmax(sp) == ArgmaxIn(sp, 0, Len(sp) - 1)

\* lines 166-168: locations and the initial refined grids
RefineStartWith(est0, subgrids, density) ==
    [locations |-> est0.locations,
     subgrids |-> subgrids,
     updates |-> [i \in 1..Len(subgrids) |-> 0],
     created |-> [i \in 1..Len(subgrids) |-> 0],
     densities |-> [i \in 1..Len(subgrids) |-> density],
     sm_calls |-> 0]

RefineStart(grid, est0, peak_indices, density) ==
    RefineStartWith(est0, create_refined_grids_at(grid, peak_indices, density),
                    density)

\* the sub-grid the body of the loop reads for estimate i
SubgridFirst(rs, i) == rs.subgrids[1]
SubgridOf(rs, i) == rs.subgrids[i + 1]

\* whether the body of the loop skips the creation of a finer grid
LastRoundNever(r, n_iters) == FALSE
LastRound(r, n_iters) == r = n_iters - 1

\* lines 181-186: the update of locations[i] and, except in the last
\* round, the finer grid around the maximum
RefineUpdate(rs, r, i, density, n_iters, g, placement, i_max) ==
    IF LastRound(r, n_iters)
    THEN [rs EXCEPT !.locations[i + 1] = placement.locations[i_max + 1],
                    !.updates[i + 1] = @ + 1,
                    !.sm_calls = @ + 1]
    ELSE [rs EXCEPT !.locations[i + 1] = placement.locations[i_max + 1],
                    !.updates[i + 1] = @ + 1,
                    !.sm_calls = @ + 1,
                    !.subgrids[i + 1] =
                        create_refined_grid_at(g, UnravelOne(i_max, GridShape(g)),
                                               density),
                    !.created[i + 1] = @ + 1,
                    !.densities = Append(@, density)]

\* lines 173-179: the steering matrix of the sub-grid, the spectrum on it
\* and the index of its maximum
RefineLocate(rs, f, r, i, density, n_iters, g, placement) ==
    RefineUpdate(rs, r, i, density, n_iters, g, placement,
                 argmax(FSp(f, steering_matrix(placement))))

RefineGrid(rs, f, r, i, density, n_iters, g) ==
    RefineLocate(rs, f, r, i, density, n_iters, g, source_placement(g))

\* lines 171-186: the body of the loop for round r and estimate i
RefineBody(rs, f, r, i, density, n_iters) ==
    RefineGrid(rs, f, r, i, density, n_iters, SubgridOf(rs, i))

\* lines 169-170: for r in range(n_iters): for i in range(len(subgrids))
RECURSIVE RefineLoop(_, _, _, _, _, _)
RefineLoop(rs, f, r, i, density, n_iters) ==
    IF r >= n_iters THEN rs
    ELSE IF i >= Len(rs.subgrids) THEN RefineLoop(rs, f, r + 1, 0, density, n_iters)
         ELSE RefineLoop(RefineBody(rs, f, r, i, density, n_iters),
                         f, r, i + 1, density, n_iters)

_refine_estimates(grid, f, est0, peak_indices, density, n_iters) ==
    RefineLoop(RefineStart(grid, est0, peak_indices, density), f, 0, 0,
               density, n_iters)

(***************************************************************************)
(* SpectrumBasedEstimatorBase._estimate.                                   *)
(***************************************************************************)
\* np.argsort(values): every ordering of the indices 0..n-1 that lists the
\* values in ascending order (the default sort is not stable, so the order
\* of equal values is not determined).
RECURSIVE ArgsortOf(_, _)
ArgsortOf(values, S) ==
    IF S = {} THEN {<<>>}
    ELSE UNION {{<<i - 1>> \o rest : rest \in ArgsortOf(values, S \ {i})} :
                    i \in {i \in S : \A j \in S : values[i] <= values[j]}}

argsort(values) == ArgsortOf(values, DOMAIN values)

\* sp[peak_indices]
PeakValues(sp, peak_indices) ==
    array([j \in 1..Len(peak_indices[1]) |->
        sp.data[RavelOne([a \in 1..Len(peak_indices) |-> peak_indices[a][j]],
                         sp.shape) + 1]])

\* lines 107-115 and 125: the spectrum, the peaks, their number and their
\* values
SpectrumPeaks(gsm, sp, peak_indices) ==
    [gsm |-> gsm, sp |-> sp, peak_indices |-> peak_indices,
     n_peaks |-> Len(peak_indices[1]),
     peak_values |-> PeakValues(sp, peak_indices)]

SpectrumOn(gsm, sp) == SpectrumPeaks(gsm, sp, find_peaks_simple(sp))

SpectrumWith(grid, f, gsm) ==
    SpectrumOn(gsm, reshape(FSp(f, gsm.A), GridShape(grid)))

Spectrum(grid, caching, cache, f) ==
    SpectrumWith(grid, f, _get_steering_matrix(grid, caching, cache))

\* np.argsort(peak_values)[-k:]
TopFirstK(order, k) == SliceTo(order, k)
TopIndices(order, k) == SliceFrom(order, -k)

\* flattened_indices.sort()
KeepOrder(flattened_indices) == flattened_indices
SortFlattened(flattened_indices) == SortAsc(flattened_indices)

\* the density and the number of iterations _estimate hands to
\* _refine_estimates: line 141 passes neither, so the defaults of line 147
\* apply whatever refinement_density and refinement_iters are
RefinementDensity(a) == DefaultDensity
RefinementIters(a) == DefaultIters

\* line 116: if n_peaks < k
NotEnoughPeaksOffByOne(n_peaks, k) == n_peaks + 1 < k
NotEnoughPeaks(n_peaks, k) == n_peaks < k

\* The values top_indices can take in the call: one per order np.argsort
\* can return (one empty value when the call returns before sorting).
TopIndicesOutcomesOf(s, a) ==
    IF NotEnoughPeaks(s.n_peaks, a.k) THEN {<<>>}
    ELSE {TopIndices(order, a.k) : order \in argsort(s.peak_values)}

TopIndicesOutcomes(grid, caching, cache, f, a) ==
    TopIndicesOutcomesOf(Spectrum(grid, caching, cache, f), a)

\* lines 142-145: the returned tuple, with what the call did
EstimateReturn(a, s, top_indices, flattened_indices, est0, rs) ==
    [ret |-> IF a.return_spectrum
             THEN <<TRUE, Some(IF a.refine_estimates
                               THEN [locations |-> rs.locations] ELSE est0),
                    Some(s.sp)>>
             ELSE <<TRUE, Some(IF a.refine_estimates
                               THEN [locations |-> rs.locations] ELSE est0)>>,
     cache |-> s.gsm.cache,
     computed |-> s.gsm.computed,
     log |-> [sp |-> s.sp, peak_indices |-> s.peak_indices,
              top_indices |-> Some(top_indices),
              flattened_indices |-> Some(flattened_indices),
              est0 |-> Some(est0),
              refined |-> IF a.refine_estimates
                          THEN Some([updates |-> rs.updates,
                                     created |-> rs.created,
                                     densities |-> rs.densities,
                                     sm_calls |-> rs.sm_calls])
                          ELSE None]]

\* lines 136-141: the estimates and, with refine_estimates, their
\* refinement (rs is read only then)
EstimateRefine(grid, f, a, s, top_indices, flattened_indices, est0) ==
    EstimateReturn(a, s, top_indices, flattened_indices, est0,
                   _refine_estimates(
                       grid, f, est0,
                       unravel_index(flattened_indices, GridShape(grid)),
                       RefinementDensity(a), RefinementIters(a)))

EstimateIndex(grid, f, a, s, top_indices, flattened_indices) ==
    EstimateRefine(grid, f, a, s, top_indices, flattened_indices,
                   PlacementIndex(source_placement(grid), flattened_indices))

\* line 129: [axis[top_indices] for axis in peak_indices]
TopPeaks(peak_indices, top_indices) ==
    array([ax \in 1..Len(peak_indices) |->
              array([j \in 1..Len(top_indices) |->
                        peak_indices[ax][top_indices[j] + 1]])])

\* lines 127-135: the k largest peaks and their sorted flattened indices
EstimateSelect(grid, f, a, s, top_indices) ==
    EstimateIndex(grid, f, a, s, top_indices,
                  SortFlattened(ravel_multi_index(
                      TopPeaks(s.peak_indices, top_indices), GridShape(grid))))

\* lines 116-145, with s the outcome of lines 107-115
EstimateFrom(grid, f, a, top_indices, s) ==
    IF NotEnoughPeaks(s.n_peaks, a.k)
    THEN [ret |-> IF a.return_spectrum THEN <<FALSE, None, None>>
                  ELSE <<FALSE, None>>,
          cache |-> s.gsm.cache,
          computed |-> s.gsm.computed,
          log |-> [sp |-> s.sp, peak_indices |-> s.peak_indices,
                   top_indices |-> None, flattened_indices |-> None,
                   est0 |-> None, refined |-> None]]
    ELSE EstimateSelect(grid, f, a, s, top_indices)

\* _estimate(f_sp, k, return_spectrum, refine_estimates, refinement_density,
\* refinement_iters) with np.argsort(peak_values)[-k:] being top_indices.
\* a holds the arguments.  The outcome is [ret, cache, computed, log]: the
\* returned tuple, self._A afterwards, the number of
\* design.steering_matrix calls made for the search grid, and what the
\* call did: the spectrum, the peaks found, top_indices, flattened_indices,
\* the estimates of line 136 and what the refinement did.
_estimate(grid, caching, cache, f, a, top_indices) ==
    EstimateFrom(grid, f, a, top_indices, Spectrum(grid, caching, cache, f))

(***************************************************************************)
(* Idle values of the variables a specification does not use.              *)
(***************************************************************************)
PeaksIdle == x = None /\ peaks_out = None
NoiseIdle == R = None /\ k_noise = 0 /\ noise_out = None
InstanceIdle ==
    /\ search_grid = None /\ enable_caching = FALSE /\ A_ = None /\ f_sp = None
    /\ calls = 0 /\ n_sm_grid = 0 /\ args = None /\ ret = None /\ log = None
instance_vars == <<search_grid, enable_caching, A_, f_sp, calls, n_sm_grid,
                   args, ret, log>>
RefineIdle == rargs = None /\ rpc = "idle" /\ rpos = None /\ loop = None
refine_vars == <<rargs, rpc, rpos, loop>>
ThreadsIdle == tpc = <<>> /\ tA = <<>> /\ tcalls = <<>> /\ n_writes = 0
thread_vars == <<tpc, tA, tcalls, n_writes>>
pure_vars == <<x, peaks_out, R, k_noise, noise_out>>

(***************************************************************************)
(* SpecPeaks: find_peaks_simple applied to one input array.                *)
(***************************************************************************)
Arrays1D ==
    {[shape |-> <<Len(d)>>, data |-> d] :
        d \in UNION {[1..n -> 0..MaxVal] : n \in 0..MaxLen}}

Arrays2D ==
    {[shape |-> s, data |-> d] :
        s \in {<<2, 2>>}, d \in [1..4 -> 0..MaxVal]}

InitPeaks ==
    /\ x \in {Some(a) : a \in Arrays1D \cup Arrays2D}
    /\ peaks_out = None
    /\ NoiseIdle
    /\ InstanceIdle
    /\ RefineIdle
    /\ ThreadsIdle

FindPeaks ==
    /\ peaks_out = None
    /\ peaks_out' = Some(find_peaks_simple(x[1]))
    /\ UNCHANGED <<x, R, k_noise, noise_out, instance_vars, refine_vars, thread_vars>>

NextPeaks == FindPeaks

SpecPeaks == InitPeaks /\ [][NextPeaks]_vars

(***************************************************************************)
(* SpecNoise: get_noise_subspace applied to one matrix and one k.          *)
(***************************************************************************)
Matrices ==
    UNION {{[rows |-> n, cols |-> m, eig |-> e] :
                e \in (IF n = m THEN [1..n -> 0..MaxVal] ELSE {<<>>})} :
           n \in 1..MaxN, m \in 1..MaxN}

InitNoise ==
    /\ R \in {Some(M) : M \in Matrices}
    /\ k_noise \in (0 - MaxN - 1)..(MaxN + 1)
    /\ noise_out = None
    /\ PeaksIdle
    /\ InstanceIdle
    /\ RefineIdle
    /\ ThreadsIdle

NoiseSubspace ==
    /\ noise_out = None
    /\ noise_out' = Some(get_noise_subspace(R[1], k_noise))
    /\ UNCHANGED <<x, peaks_out, R, k_noise, instance_vars, refine_vars, thread_vars>>

NextNoise == NoiseSubspace

SpecNoise == InitNoise /\ [][NextNoise]_vars

(***************************************************************************)
(* Spec: one estimator instance and a sequence of _estimate calls on it.   *)
(***************************************************************************)
\* a search grid of the given shape whose points are `step` apart
UniformGrid(shape, step) ==
    [axes |-> array([a \in 1..Len(shape) |->
                        array([j \in 1..shape[a] |-> (j - 1) * step])])]

\* the search grids: 5 points on a line, and 2 x 2 points
GridShapes == {<<5>>, <<2, 2>>}

\* the spectrum functions on the grid of the given shape and spacing
\* (on the 2 x 2 grid every peak has the largest value of the grid, so
\* the grid values 0 and 1 give every pattern of peaks)
SpectrumFunctions(shape, step) ==
    {[shape |-> shape, step |-> step, tab |-> t] :
        t \in [1..Prod(shape) -> IF Len(shape) = 1 THEN 0..MaxVal ELSE 0..1]}

\* the spacing of the search grid: every sub-grid the refinement with the
\* given density and number of iterations creates has integer positions
GridStep(density, n_iters) == density ^ n_iters

Arguments ==
    [k : 1..MaxK, return_spectrum : BOOLEAN, refine_estimates : BOOLEAN,
     refinement_density : {1, MaxDensity}, refinement_iters : {1, MaxIters}]

Init ==
    /\ \E shape \in GridShapes :
        /\ search_grid = UniformGrid(shape, GridStep(DefaultDensity, DefaultIters))
        /\ f_sp \in SpectrumFunctions(shape, GridStep(DefaultDensity, DefaultIters))
    /\ enable_caching \in BOOLEAN
    /\ A_ = None
    /\ calls = 0
    /\ n_sm_grid = 0
    /\ args = None
    /\ ret = None
    /\ log = None
    /\ PeaksIdle
    /\ NoiseIdle
    /\ RefineIdle
    /\ ThreadsIdle

\* The instance and the bookkeeping after a call with outcome out.
Returned(a, out) ==
    /\ A_' = out.cache
    /\ n_sm_grid' = n_sm_grid + out.computed
    /\ args' = Some(a)
    /\ ret' = Some(out.ret)
    /\ log' = Some(out.log)

\* One _estimate call on the instance, whatever its arguments.
EstimateCall ==
    /\ \E a \in Arguments :
        \E top \in TopIndicesOutcomes(search_grid, enable_caching, A_, f_sp, a) :
            Returned(a, _estimate(search_grid, enable_caching, A_, f_sp, a, top))
    /\ calls' = calls + 1
    /\ UNCHANGED <<search_grid, enable_caching, f_sp,
                   pure_vars, refine_vars, thread_vars>>

\* Spec: every spectrum function, and the first call on a fresh instance.
Estimate == calls = 0 /\ EstimateCall

Next == Estimate

Spec == Init /\ [][Next]_vars

(***************************************************************************)
(* SpecCalls: a sequence of _estimate calls on one instance, for the       *)
(* spectrum functions with at most one non-zero grid value.                *)
(***************************************************************************)
PointSpectrum(f) == Cardinality({i \in DOMAIN f.tab : f.tab[i] # 0}) <= 1

InitCalls == Init /\ Len(f_sp.shape) = 1 /\ PointSpectrum(f_sp)

EstimateAgain == calls < MaxCalls /\ EstimateCall

NextCalls == EstimateAgain

SpecCalls == InitCalls /\ [][NextCalls]_vars

(***************************************************************************)
(* SpecRefine: one _refine_estimates call, run one loop body at a time in  *)
(* the order of the code (for r: for i).  SpecAnyOrder: the same bodies,   *)
(* each estimate's in sequence, the estimates in any order.                *)
(***************************************************************************)
\* the strictly ascending lists of 1..max_len flattened indices below size
RECURSIVE AscendingLists(_, _, _)
AscendingLists(lo, size, max_len) ==
    IF max_len = 0 THEN {<<>>}
    ELSE {<<>>} \cup
         UNION {{<<v>> \o rest : rest \in AscendingLists(v + 1, size, max_len - 1)} :
                    v \in lo..(size - 1)}

RefineArguments(grid) ==
    {[est0 |-> PlacementIndex(source_placement(grid), idx),
      peak_indices |-> unravel_index(idx, GridShape(grid)),
      density |-> d, n_iters |-> n] :
        idx \in AscendingLists(0, Prod(GridShape(grid)), MaxK) \ {<<>>},
        d \in 1..MaxDensity,
        n \in 1..MaxIters}

InitRefine ==
    /\ \E shape \in GridShapes, d \in 1..MaxDensity, n \in 1..MaxIters :
        /\ search_grid = UniformGrid(shape, GridStep(d, n))
        /\ f_sp \in {f \in SpectrumFunctions(shape, GridStep(d, n)) : PointSpectrum(f)}
        /\ rargs \in {a \in RefineArguments(search_grid) :
                        a.density = d /\ a.n_iters = n}
    /\ rpc = "call"
    /\ rpos = None
    /\ loop = None
    /\ enable_caching = FALSE /\ A_ = None
    /\ calls = 0 /\ n_sm_grid = 0 /\ args = None /\ ret = None /\ log = None
    /\ PeaksIdle
    /\ NoiseIdle
    /\ ThreadsIdle

\* lines 166-168
RefineEnter ==
    /\ rpc = "call"
    /\ loop' = RefineStart(search_grid, rargs.est0, rargs.peak_indices, rargs.density)
    /\ rpos' = [r |-> 0, i |-> 0]
    /\ rpc' = "loop"
    /\ UNCHANGED <<rargs, pure_vars, instance_vars, thread_vars>>

\* the loop variables after the body for (r, i): the next estimate, or the
\* first estimate of the next round
NextPosition(pos, k) ==
    IF pos.i + 1 < k THEN [r |-> pos.r, i |-> pos.i + 1]
    ELSE [r |-> pos.r + 1, i |-> 0]

\* lines 169-186: one body of the loop, at the loop variables (r, i)
RefineIterate ==
    /\ rpc = "loop"
    /\ rpos.r < rargs.n_iters
    /\ rpos.i < Len(loop.subgrids)
    /\ loop' = RefineBody(loop, f_sp, rpos.r, rpos.i, rargs.density, rargs.n_iters)
    /\ rpos' = NextPosition(rpos, Len(loop.subgrids))
    /\ UNCHANGED <<rargs, rpc, pure_vars, instance_vars, thread_vars>>

\* the loop is over: the call returns
RefineReturn ==
    /\ rpc = "loop"
    /\ rpos.r >= rargs.n_iters
    /\ rpc' = "done"
    /\ UNCHANGED <<rargs, rpos, loop, pure_vars, instance_vars, thread_vars>>

NextRefine == RefineEnter \/ RefineIterate \/ RefineReturn

SpecRefine == InitRefine /\ [][NextRefine]_vars

\* the next body of estimate i, whatever the other estimates have done
RefineEstimate(i) ==
    /\ rpc = "loop"
    /\ loop.updates[i + 1] < rargs.n_iters
    /\ loop' = RefineBody(loop, f_sp, loop.updates[i + 1], i, rargs.density, rargs.n_iters)
    /\ UNCHANGED <<rargs, rpc, rpos, pure_vars, instance_vars, thread_vars>>

RefineAny ==
    /\ rpc = "loop"
    /\ \E i \in 0..(Len(loop.subgrids) - 1) : RefineEstimate(i)

RefineAllDone ==
    /\ rpc = "loop"
    /\ \A i \in 1..Len(loop.subgrids) : loop.updates[i] = rargs.n_iters
    /\ rpc' = "done"
    /\ UNCHANGED <<rargs, rpos, loop, pure_vars, instance_vars, thread_vars>>

NextAnyOrder == RefineEnter \/ RefineAny \/ RefineAllDone

SpecAnyOrder == InitRefine /\ [][NextAnyOrder]_vars

(***************************************************************************)
(* SpecThreads: threads that run _get_steering_matrix on one instance, one *)
(* line at a time.                                                         *)
(***************************************************************************)
Threads == 1..NThreads

InitThreads ==
    /\ search_grid = UniformGrid(<<5>>, GridStep(DefaultDensity, DefaultIters))
    /\ enable_caching \in BOOLEAN
    /\ A_ = None
    /\ n_sm_grid = 0
    /\ f_sp = None /\ calls = 0 /\ args = None /\ ret = None /\ log = None
    /\ tpc = [t \in Threads |-> "idle"]
    /\ tA = [t \in Threads |-> None]
    /\ tcalls = [t \in Threads |-> 0]
    /\ n_writes = 0
    /\ PeaksIdle
    /\ NoiseIdle
    /\ RefineIdle

thread_frame == <<search_grid, enable_caching, f_sp, calls, args, ret, log,
                  pure_vars, refine_vars>>

\* the thread enters _get_steering_matrix
ThreadCall(t) ==
    /\ tpc[t] = "idle"
    /\ tcalls[t] < MaxCalls
    /\ tpc' = [tpc EXCEPT ![t] = "line57"]
    /\ tA' = [tA EXCEPT ![t] = None]
    /\ UNCHANGED <<A_, n_sm_grid, tcalls, n_writes, thread_frame>>

\* lines 57-58: if self._A is not None: return self._A
ThreadCheck(t) ==
    /\ tpc[t] = "line57"
    /\ IF A_ # None
       THEN /\ tA' = [tA EXCEPT ![t] = A_]
            /\ tpc' = [tpc EXCEPT ![t] = "return"]
       ELSE /\ tpc' = [tpc EXCEPT ![t] = "line59"]
            /\ tA' = tA
    /\ UNCHANGED <<A_, n_sm_grid, tcalls, n_writes, thread_frame>>

\* lines 59-62: A = self._design.steering_matrix(...)
ThreadCompute(t) ==
    /\ tpc[t] = "line59"
    /\ tA' = [tA EXCEPT ![t] = Some(steering_matrix(source_placement(search_grid)))]
    /\ n_sm_grid' = n_sm_grid + 1
    /\ tpc' = [tpc EXCEPT ![t] = "line63"]
    /\ UNCHANGED <<A_, tcalls, n_writes, thread_frame>>

\* lines 63-64: if self._enable_caching: self._A = A
ThreadStore(t) ==
    /\ tpc[t] = "line63"
    /\ A_' = StoreIfCaching(enable_caching, A_, tA[t][1])
    /\ n_writes' = IF enable_caching THEN n_writes + 1 ELSE n_writes
    /\ tpc' = [tpc EXCEPT ![t] = "return"]
    /\ UNCHANGED <<tA, n_sm_grid, tcalls, thread_frame>>

\* lines 58 and 65: return
ThreadReturn(t) ==
    /\ tpc[t] = "return"
    /\ tpc' = [tpc EXCEPT ![t] = "idle"]
    /\ tcalls' = [tcalls EXCEPT ![t] = @ + 1]
    /\ UNCHANGED <<A_, tA, n_sm_grid, n_writes, thread_frame>>

NextThreads ==
    \E t \in Threads :
        \/ ThreadCall(t)
        \/ ThreadCheck(t)
        \/ ThreadCompute(t)
        \/ ThreadStore(t)
        \/ ThreadReturn(t)

SpecThreads == InitThreads /\ [][NextThreads]_vars

(***************************************************************************)
(* The claims.  In Spec and SpecCalls, args, ret and log are those of the  *)
(* latest _estimate call.                                                  *)
(***************************************************************************)
Called == calls > 0
Arg == args[1]
Log == log[1]
Ret == ret[1]

\* the number of peaks the peak finder reported in the call
NPeaks == Len(Log.peak_indices[1])

\* the flattened grid indices of the peaks the peak finder reported
PeakSet == {ravel_multi_index(Log.peak_indices, Log.sp.shape)[j] : j \in 1..NPeaks}

\* the flattened grid indices the call selected
Selected == {Log.flattened_indices[1][j] : j \in 1..Len(Log.flattened_indices[1])}

StrictlyAscending(seq) == \A j \in 1..(Len(seq) - 1) : seq[j] < seq[j + 1]

\* C1: when the peak finder reports strictly fewer than k peaks, _estimate
\* returns (False, None), or (False, None, None) with return_spectrum, and
\* does nothing more: no top-k selection, no indexing of the grid's source
\* placement, no refinement (no sub-grid, no further steering_matrix call).
C1_TooFewPeaks ==
    (Called /\ NPeaks < Arg.k) =>
        /\ Ret = (IF Arg.return_spectrum THEN <<FALSE, None, None>>
                  ELSE <<FALSE, None>>)
        /\ Log.top_indices = None
        /\ Log.flattened_indices = None
        /\ Log.est0 = None
        /\ Log.refined = None

\* a call that asks for refinement and for the spectrum, and for more peaks
\* than the one or more the spectrum has
C1_Witness ==
    /\ Called
    /\ NPeaks >= 1 /\ NPeaks < Arg.k
    /\ Arg.refine_estimates /\ Arg.return_spectrum
    /\ Ret[1] = FALSE

\* C2: when the peak finder reports at least k peaks, _estimate returns
\* resolved = True, and the estimates of line 136 are the entries of the
\* grid's source placement at exactly k flattened indices in strictly
\* ascending order, whatever the values of the selected peaks; the returned
\* estimates are k, and without refinement they are those of line 136.
C2_AscendingGridOrder ==
    (Called /\ NPeaks >= Arg.k) =>
        /\ Ret[1] = TRUE
        /\ Len(Log.flattened_indices[1]) = Arg.k
        /\ StrictlyAscending(Log.flattened_indices[1])
        /\ Len(Log.est0[1].locations) = Arg.k
        /\ \A j \in 1..Arg.k :
              Log.est0[1].locations[j] =
                  [a \in 1..Len(search_grid.axes) |->
                      search_grid.axes[a][
                          UnravelOne(Log.flattened_indices[1][j], Log.sp.shape)[a] + 1]]
        /\ Len(Ret[2][1].locations) = Arg.k
        /\ (~Arg.refine_estimates => Ret[2][1] = Log.est0[1])

\* two peaks selected, the one at the smaller grid index being the larger
C2_Witness ==
    /\ Called
    /\ Arg.k = 2 /\ NPeaks >= 2
    /\ Ret[1] = TRUE
    /\ Log.sp.data[Log.flattened_indices[1][1] + 1]
           > Log.sp.data[Log.flattened_indices[1][2] + 1]

\* C3: when _estimate resolves, the peaks it selects are k of the detected
\* peaks, and no detected peak left out has a spectrum value strictly
\* greater than that of a selected peak.
C3_LargestPeaks ==
    (Called /\ NPeaks >= Arg.k) =>
        /\ Selected \subseteq PeakSet
        /\ Cardinality(Selected) = Arg.k
        /\ \A p \in PeakSet \ Selected : \A q \in Selected :
              Log.sp.data[p + 1] <= Log.sp.data[q + 1]

\* a resolved call that leaves out a peak strictly smaller than a selected one
C3_Witness ==
    /\ Called
    /\ NPeaks > Arg.k
    /\ Ret[1] = TRUE
    /\ \E p \in PeakSet \ Selected : \E q \in Selected :
          Log.sp.data[p + 1] < Log.sp.data[q + 1]

\* C4: after m >= 1 sequential _estimate calls on one instance, the design's
\* steering_matrix has been called for the search grid's source placement
\* once in all with enable_caching (the matrix is retained in self._A), and
\* m times without it (self._A is still None).
C4_SteeringMatrixCalls ==
    Called =>
        IF enable_caching
        THEN /\ n_sm_grid = 1
             /\ A_ = Some(steering_matrix(source_placement(search_grid)))
        ELSE /\ n_sm_grid = calls
             /\ A_ = None

\* two or more calls on a caching instance
C4_Witness == calls >= 2 /\ enable_caching /\ n_sm_grid = 1 /\ A_ # None

\* C5: a resolved call with refine_estimates refines with the
\* refinement_density and refinement_iters it was given: every sub-grid is
\* created with that density and every estimate is updated that many times.
C5_RefinementArguments ==
    (Called /\ NPeaks >= Arg.k /\ Arg.refine_estimates) =>
        /\ \A j \in 1..Len(Log.refined[1].densities) :
              Log.refined[1].densities[j] = Arg.refinement_density
        /\ \A j \in 1..Len(Log.refined[1].updates) :
              Log.refined[1].updates[j] = Arg.refinement_iters

\* C6: get_noise_subspace(R, k) for an n x n matrix R raises whenever
\* k >= n, and when it returns a matrix then 0 < k < n and the matrix has
\* exactly n - k columns.
C6_NoiseSubspaceRange ==
    (noise_out # None /\ R[1].rows = R[1].cols) =>
        /\ (k_noise >= R[1].rows => noise_out[1].raised)
        /\ (~noise_out[1].raised =>
               /\ 0 < k_noise /\ k_noise < R[1].rows
               /\ Len(noise_out[1].value[1].cols) = R[1].rows - k_noise)

\* the indices find_peaks_simple reported for the 1-D array x
Reported == {peaks_out[1][1][j] : j \in 1..Len(peaks_out[1][1])}

OneDimDone == x # None /\ peaks_out # None /\ Len(x[1].shape) = 1

\* x[i], for a 0-based index i
XAt(i) == x[1].data[i + 1]

\* C7 as stated: for a 1-D array x, find_peaks_simple reports index i
\* exactly when 0 < i < len(x) - 1 and x[i] is strictly greater than both
\* x[i - 1] and x[i + 1].
C7_StrictLocalMaxima ==
    OneDimDone =>
        Reported = {i \in 1..(x[1].shape[1] - 2) :
                        XAt(i) > XAt(i - 1) /\ XAt(i) > XAt(i + 1)}

\* x[l..r] is a run of equal values inside the array whose two outer
\* neighbours x[l - 1] and x[r + 1] are strictly smaller
IsPlateau(l, r) ==
    /\ 0 < l /\ l <= r /\ r < x[1].shape[1] - 1
    /\ \A j \in l..r : XAt(j) = XAt(l)
    /\ XAt(l - 1) < XAt(l)
    /\ XAt(r + 1) < XAt(l)

\* C7, amended: for a 1-D array x, find_peaks_simple reports index i
\* exactly when i is the midpoint, rounded down, of a run x[l..r] of equal
\* values with 0 < l <= r < len(x) - 1 and x[l - 1], x[r + 1] strictly
\* smaller (a strict local maximum is the run l = r = i); the indices are
\* reported in ascending order, and 0 and len(x) - 1 never are.
C7_PlateauMidpoints ==
    OneDimDone =>
        /\ Reported = {i \in 0..(x[1].shape[1] - 1) :
                          \E l \in 0..i, r \in i..(x[1].shape[1] - 1) :
                              IsPlateau(l, r) /\ 2 * i <= l + r /\ l + r <= 2 * i + 1}
        /\ StrictlyAscending(peaks_out[1][1])
        /\ 0 \notin Reported
        /\ (x[1].shape[1] - 1) \notin Reported

\* a reported peak that is no strict local maximum: its right neighbour is
\* as large
C7_Witness ==
    /\ OneDimDone
    /\ \E i \in Reported : XAt(i + 1) = XAt(i)

\* The chain of estimate i run on its own: a refinement of the one estimate
\* est0[i] that starts from the sub-grid `subgrid` and makes the updates of
\* rounds r .. upto - 1.
RECURSIVE SoloChain(_, _, _, _, _, _)
SoloChain(rs, f, r, upto, density, n_iters) ==
    IF r >= upto THEN rs
    ELSE SoloChain(RefineBody(rs, f, r, 0, density, n_iters), f, r + 1, upto,
                   density, n_iters)

SoloStart(location, subgrid, density) ==
    RefineStartWith([locations |-> <<location>>], <<subgrid>>, density)

\* estimate i (1-based) after its first `upto` updates, computed from its
\* own initial location and sub-grid and from f_sp only
Solo(i, upto) ==
    SoloChain(SoloStart(rargs.est0.locations[i],
                        create_refined_grids_at(search_grid, rargs.peak_indices,
                                                rargs.density)[i],
                        rargs.density),
              f_sp, 0, upto, rargs.density, rargs.n_iters)

SameAsSolo(i, solo) ==
    /\ loop.locations[i] = solo.locations[1]
    /\ loop.subgrids[i] = solo.subgrids[1]

\* C8: when the chains of the estimates run in any order, each chain in
\* sequence, the location and the sub-grid of every estimate are at every
\* moment those its own chain gives from its own initial sub-grid and f_sp,
\* and the final locations are those of the code's round-by-round order.
C8_IndependentChains ==
    /\ (rpc \in {"loop", "done"}) =>
          \A i \in 1..Len(loop.subgrids) : SameAsSolo(i, Solo(i, loop.updates[i]))
    /\ (rpc = "done") =>
          loop.locations =
              _refine_estimates(search_grid, f_sp, rargs.est0, rargs.peak_indices,
                                rargs.density, rargs.n_iters).locations

\* an order the code never takes: the second estimate has made all of its
\* updates, two or more, and has moved, before the first has made any
C8_Witness ==
    /\ rpc = "loop"
    /\ Len(loop.subgrids) >= 2
    /\ rargs.n_iters >= 2
    /\ loop.updates[1] = 0
    /\ loop.updates[2] = rargs.n_iters
    /\ loop.locations[2] # rargs.est0.locations[2]

\* C9: with enable_caching, the cache slot self._A of one instance is
\* written at most once and steering_matrix is computed for the search grid
\* at most once, in every interleaving of the threads' _get_steering_matrix
\* executions.
C9_SingleWriter == enable_caching => (n_writes <= 1 /\ n_sm_grid <= 1)

\* m is the first index (1-based) of the maximum of vals
IsFirstMax(vals, m) ==
    \A j \in 1..Len(vals) : vals[j] <= vals[m] /\ (j < m => vals[j] < vals[m])

\* the step updates estimate i, whose current sub-grid g has the points pts
\* and the spectrum vals: locations[i] becomes the point at the first
\* maximum, and a sub-grid centred there replaces g unless this is the
\* estimate's last update
UpdatesFrom(i, g, pts, vals) ==
    \E m \in 1..Len(pts) :
        /\ IsFirstMax(vals, m)
        /\ loop'.locations[i] = pts[m]
        /\ IF loop.updates[i] = rargs.n_iters - 1
           THEN /\ loop'.subgrids[i] = g
                /\ loop'.created[i] = loop.created[i]
           ELSE /\ loop'.subgrids[i] =
                       create_refined_grid_at(g, UnravelOne(m - 1, GridShape(g)),
                                              rargs.density)
                /\ loop'.created[i] = loop.created[i] + 1

UpdatesOn(i, g, pts) == UpdatesFrom(i, g, pts, FSp(f_sp, pts))

\* one step of the loop: one location update, of the estimate the loop is at
RefineStep(i) ==
    /\ loop.updates[i] = rpos.r
    /\ loop'.updates = [loop.updates EXCEPT ![i] = @ + 1]
    /\ Len(loop'.locations) = Len(loop.locations)
    /\ \A j \in (1..Len(loop.subgrids)) \ {i} :
          /\ loop'.locations[j] = loop.locations[j]
          /\ loop'.subgrids[j] = loop.subgrids[j]
          /\ loop'.created[j] = loop.created[j]
    /\ UpdatesOn(i, loop.subgrids[i], GridPoints(loop.subgrids[i].axes))

RefineFinal ==
    (rpc = "done") =>
        /\ Len(loop.locations) = Len(rargs.est0.locations)
        /\ \A i \in 1..Len(loop.locations) :
              /\ loop.updates[i] = rargs.n_iters
              /\ loop.created[i] = rargs.n_iters - 1

\* C10: _refine_estimates with n_iters = n on k estimates changes its state
\* only by location updates made one at a time: each overwrites locations[i]
\* with the point of estimate i's current sub-grid at the first index of the
\* maximum of f_sp on it, leaves the other estimates alone, and is followed
\* by a new sub-grid centred at that maximum except after the estimate's
\* last update; when it returns every estimate has had exactly n updates and
\* n - 1 create_refined_grid_at calls, and there are still k estimates.
C10_RefinementSteps ==
    /\ []RefineFinal
    /\ [][(rpc = "loop" /\ loop' # loop) => RefineStep(rpos.i + 1)]_vars

\* a call with two or more estimates and iterations has returned, and an
\* estimate has moved off its coarse location
C10_Witness ==
    /\ rpc = "done"
    /\ rargs.n_iters >= 2
    /\ Len(loop.locations) >= 2
    /\ \E i \in 1..Len(loop.locations) :
          loop.locations[i] # rargs.est0.locations[i]

====
